---- MODULE Spec2Model ----
(***************************************************************************)
(* State-machine model of the two ledgers of Silica-Protocol/contracts:    *)
(*   crc20  (src/crc20/src/lib.rs)   the fungible token ledger             *)
(*   crc721 (src/crc721/src/lib.rs)  the non-fungible token registry       *)
(*                                                                         *)
(* Every entry point is one action.  The host serialises invocations and   *)
(* no handler calls out of the contract, so each handler runs to its       *)
(* return as one step.  Storage maps are functions whose DOMAIN is the set *)
(* of keys that have been written (Map::get returns None for the others).  *)
(* Storage get/set themselves are taken to succeed (the key-value store is *)
(* an external collaborator).  A failed assert! traps the invocation and   *)
(* the host discards its writes; a returned Err is only logged by the      *)
(* entry point, so the writes made before it stay.  Names shared by the    *)
(* two crates carry the crate name as a prefix.                            *)
(***************************************************************************)
EXTENDS Integers, Sequences, FiniteSets, TLC

VARIABLES
    crc20_metadata,     \* storage key "metadata": None or Some(TokenMetadata)
    crc20_balances,     \* Map "balances": address -> u64 (absent reads as 0)
    crc20_allowances,   \* Map "allowances": (owner, spender) -> u64 (absent reads as 0)
    crc20_events,       \* events emitted by the latest crc20 invocation
    crc20_last          \* the latest crc20 invocation and its outcome

vars20 == <<crc20_metadata, crc20_balances, crc20_allowances, crc20_events, crc20_last>>
store20 == <<crc20_metadata, crc20_balances, crc20_allowances>>

VARIABLES
    collection_metadata,  \* storage key "collection_metadata": None or Some(CollectionMetadata)
    tokens,               \* Map "tokens": token_id -> TokenInfo
    crc721_balances,      \* Map "balances": address -> u64
    token_approvals,      \* Map "token_approvals": token_id -> address
    operator_approvals,   \* Map "operator_approvals": the (owner, operator) keys holding true
    all_tokens,           \* Map "all_tokens", key "global": Vec<u64> (absent reads as empty)
    owner_tokens,         \* Map "owner_tokens": address -> Vec<u64> (absent reads as empty)
    reentrancy_locked,    \* the ReentrancyGuard flag
    crc721_events,        \* events emitted by the latest crc721 invocation
    crc721_last,          \* the latest crc721 invocation and whether it emitted its event
    calls721,             \* number of crc721 invocations so far
    mint_ok_count,        \* history: per token_id, the mints that reached their event
    in_flight             \* guarded invocations past enter() that have not returned

store721 == <<collection_metadata, tokens, crc721_balances, token_approvals,
              operator_approvals, all_tokens, owner_tokens>>
vars721 == <<store721, reentrancy_locked, crc721_events, crc721_last, calls721,
             mint_ok_count, in_flight>>

vars == <<vars20, vars721>>

----------------------------------------------------------------------------
(* Bounds *)

\* Largest value of the unsigned counter type (stands for u64::MAX, scaled).
U64Max == 3

U64 == 0..U64Max

\* Number of values of usize on the wasm32 target the crates are built for
\* (stands for 2^32, scaled like U64Max: smaller than the u64 range).
UsizeModulus == 2

\* Transaction senders the host presents to crc20 (context().sender()).
Senders20 == {"", "A", "B"}
\* Address arguments of crc20 calls.
Addrs20 == {"", "A", "B"}
\* Keys of the balances map: read_balance/write_balance assert a non-empty
\* address.
Accounts20 == Addrs20 \ {""}
\* Spender arguments of crc20 approve: one account, so that an owner can
\* approve another account (A -> B) and itself (B -> B).
Spenders20 == {"", "B"}

Names20 == {"", "Chert Token"}
Symbols20 == {"", "CHT"}
Decimals20 == {18}

----------------------------------------------------------------------------
(* Option and Map helpers *)

None == << >>
Some(x) == <<x>>
IsSome(o) == Len(o) = 1
Unwrap(o) == o[1]

EmptyMap == [k \in {} |-> 0]
Has(m, k) == k \in DOMAIN m
GetOr(m, k, d) == IF k \in DOMAIN m THEN m[k] ELSE d
Set(m, k, v) == [x \in (DOMAIN m) \cup {k} |-> IF x = k THEN v ELSE m[x]]

RECURSIVE SumOver(_, _)
SumOver(m, S) ==
    IF S = {} THEN 0
    ELSE LET k == CHOOSE x \in S : TRUE IN m[k] + SumOver(m, S \ {k})
SumMap(m) == SumOver(m, DOMAIN m)

----------------------------------------------------------------------------
(* SDK collaborators: safe_math and validation *)

safe_math_add_ok(a, b) == a + b <= U64Max
safe_math_sub_ok(a, b) == b <= a
validate_address(s) == s # ""
validate_positive_amount(n) == n # 0
validate_non_empty(s) == s # ""

----------------------------------------------------------------------------
(* crc20 *)

ZERO_ADDRESS == "0x0"

\* The latest invocation: its entry point and how it ended ("Ok", the
\* ContractError variant it returned, or "panic" for a failed assert!).
Call20(op, result) == [op |-> op, result |-> result]

TransferEvent(from, to, amount) ==
    [name |-> "Transfer", from |-> from, to |-> to, amount |-> amount]
ApprovalEvent(owner, spender, amount) ==
    [name |-> "Approval", from |-> owner, to |-> spender, amount |-> amount]

\* Every crc20 read of the two maps is get(..).unwrap_or(0), so a key that
\* was never written is indistinguishable from one holding 0: the maps are
\* total functions that start at 0.
read_balance(balances, address) == balances[address]
write_balance(balances, address, amount) == [balances EXCEPT ![address] = amount]
\* The allowance looked up under the key with owner and spender exchanged.
read_allowance_Swapped(allowances, owner, spender) == allowances[<<spender, owner>>]
read_allowance(allowances, owner, spender) == allowances[<<owner, spender>>]
\* The allowance written as the stored value plus the amount.
write_allowance_Additive(allowances, owner, spender, amount) ==
    [allowances EXCEPT ![<<owner, spender>>] = @ + amount]
write_allowance(allowances, owner, spender, amount) ==
    [allowances EXCEPT ![<<owner, spender>>] = amount]
ensure_initialized == IsSome(crc20_metadata)

\* transfer_impl crediting the recipient without debiting the sender.
transfer_impl_NoDebit(balances, from, to, amount) ==
    IF ~validate_address(from) \/ ~validate_address(to)
       \/ ~validate_positive_amount(amount)
    THEN [result |-> "InvalidArgument", balances |-> balances]
    ELSE LET from_balance == read_balance(balances, from) IN
         IF from_balance < amount
         THEN [result |-> "InsufficientBalance", balances |-> balances]
         ELSE LET new_from_balance == from_balance - amount
                  to_balance == read_balance(balances, to)
              IN IF ~safe_math_add_ok(to_balance, amount)
                 THEN [result |-> "Overflow", balances |-> balances]
                 ELSE [result |-> "Ok",
                       balances |->
                         write_balance(balances, to, to_balance + amount)]

\* transfer_impl committing the sender's new balance before the recipient's
\* addition is checked.
transfer_impl_WriteBeforeAdd(balances, from, to, amount) ==
    IF ~validate_address(from) \/ ~validate_address(to)
       \/ ~validate_positive_amount(amount)
    THEN [result |-> "InvalidArgument", balances |-> balances]
    ELSE LET from_balance == read_balance(balances, from) IN
         IF from_balance < amount
         THEN [result |-> "InsufficientBalance", balances |-> balances]
         ELSE LET written == write_balance(balances, from, from_balance - amount)
                  to_balance == read_balance(balances, to)
              IN IF ~safe_math_add_ok(to_balance, amount)
                 THEN [result |-> "Overflow", balances |-> written]
                 ELSE [result |-> "Ok",
                       balances |-> write_balance(written, to, to_balance + amount)]

\* Result of transfer_impl: the Result it returns and the balances map it
\* leaves behind.
transfer_impl(balances, from, to, amount) ==
    IF ~validate_address(from) \/ ~validate_address(to)
       \/ ~validate_positive_amount(amount)
    THEN [result |-> "InvalidArgument", balances |-> balances]
    ELSE LET from_balance == read_balance(balances, from) IN
         IF from_balance < amount
         THEN [result |-> "InsufficientBalance", balances |-> balances]
         ELSE LET new_from_balance == from_balance - amount
                  to_balance == read_balance(balances, to)
              IN IF ~safe_math_add_ok(to_balance, amount)
                 THEN [result |-> "Overflow", balances |-> balances]
                 ELSE [result |-> "Ok",
                       balances |->
                         write_balance(write_balance(balances, from, new_from_balance),
                                       to, to_balance + amount)]

Fail20(op, result) ==
    /\ crc20_last' = Call20(op, result)
    /\ crc20_events' = << >>
    /\ UNCHANGED store20

\* initialize without the test that the metadata key is already stored.
execute_initialize_Again(sender, name, symbol, decimals, initial_supply) ==
    IF ~validate_non_empty(name) \/ ~validate_non_empty(symbol)
       \/ ~validate_address(sender)
    THEN Fail20("initialize", "InvalidArgument")
    ELSE /\ crc20_metadata' = Some([name |-> name, symbol |-> symbol,
                                    decimals |-> decimals,
                                    total_supply |-> initial_supply,
                                    owner |-> sender])
         /\ crc20_balances' = write_balance(crc20_balances, sender, initial_supply)
         /\ crc20_events' = <<TransferEvent(ZERO_ADDRESS, sender, initial_supply)>>
         /\ crc20_last' = Call20("initialize", "Ok")
         /\ UNCHANGED crc20_allowances

execute_initialize(sender, name, symbol, decimals, initial_supply) ==
    IF ~validate_non_empty(name) \/ ~validate_non_empty(symbol)
       \/ IsSome(crc20_metadata) \/ ~validate_address(sender)
    THEN Fail20("initialize", "InvalidArgument")
    ELSE /\ crc20_metadata' = Some([name |-> name, symbol |-> symbol,
                                    decimals |-> decimals,
                                    total_supply |-> initial_supply,
                                    owner |-> sender])
         /\ crc20_balances' = write_balance(crc20_balances, sender, initial_supply)
         /\ crc20_events' = <<TransferEvent(ZERO_ADDRESS, sender, initial_supply)>>
         /\ crc20_last' = Call20("initialize", "Ok")
         /\ UNCHANGED crc20_allowances

execute_transfer(sender, to, amount) ==
    IF ~ensure_initialized \/ ~validate_positive_amount(amount)
    THEN Fail20("transfer", "InvalidArgument")
    ELSE LET r == transfer_impl(crc20_balances, sender, to, amount) IN
         /\ crc20_balances' = r.balances
         /\ crc20_events' = IF r.result = "Ok"
                            THEN <<TransferEvent(sender, to, amount)>>
                            ELSE << >>
         /\ crc20_last' = Call20("transfer", r.result)
         /\ UNCHANGED <<crc20_metadata, crc20_allowances>>

execute_approve(sender, spender, amount) ==
    IF ~ensure_initialized
    THEN Fail20("approve", "InvalidArgument")
    ELSE IF sender = "" \/ spender = ""
    THEN \* write_allowance asserts non-empty addresses before it touches the map
         Fail20("approve", "panic")
    ELSE /\ crc20_allowances' = write_allowance(crc20_allowances, sender, spender, amount)
         /\ crc20_events' = <<ApprovalEvent(sender, spender, amount)>>
         /\ crc20_last' = Call20("approve", "Ok")
         /\ UNCHANGED <<crc20_metadata, crc20_balances>>

\* transfer_from crediting the amount to the allowance it spends.
execute_transfer_from_AllowanceAdded(sender, from, to, amount) ==
    IF ~ensure_initialized \/ ~validate_positive_amount(amount)
    THEN Fail20("transfer_from", "InvalidArgument")
    ELSE IF from = "" \/ sender = ""
    THEN \* read_allowance asserts both addresses non-empty
         Fail20("transfer_from", "panic")
    ELSE LET allowance == read_allowance(crc20_allowances, from, sender) IN
         IF allowance < amount
         THEN Fail20("transfer_from", "InsufficientBalance")
         ELSE LET r == transfer_impl(crc20_balances, from, to, amount) IN
              /\ crc20_balances' = r.balances
              /\ crc20_allowances' =
                    IF r.result = "Ok"
                    THEN write_allowance(crc20_allowances, from, sender,
                                         allowance + amount)
                    ELSE crc20_allowances
              /\ crc20_events' = IF r.result = "Ok"
                                 THEN <<TransferEvent(from, to, amount)>>
                                 ELSE << >>
              /\ crc20_last' = Call20("transfer_from", r.result)
              /\ UNCHANGED crc20_metadata

execute_transfer_from(sender, from, to, amount) ==
    IF ~ensure_initialized \/ ~validate_positive_amount(amount)
    THEN Fail20("transfer_from", "InvalidArgument")
    ELSE IF from = "" \/ sender = ""
    THEN \* read_allowance asserts both addresses non-empty
         Fail20("transfer_from", "panic")
    ELSE LET allowance == read_allowance(crc20_allowances, from, sender) IN
         IF allowance < amount
         THEN Fail20("transfer_from", "InsufficientBalance")
         ELSE LET r == transfer_impl(crc20_balances, from, to, amount) IN
              /\ crc20_balances' = r.balances
              /\ crc20_allowances' =
                    IF r.result = "Ok"
                    THEN write_allowance(crc20_allowances, from, sender,
                                         allowance - amount)
                    ELSE crc20_allowances
              /\ crc20_events' = IF r.result = "Ok"
                                 THEN <<TransferEvent(from, to, amount)>>
                                 ELSE << >>
              /\ crc20_last' = Call20("transfer_from", r.result)
              /\ UNCHANGED crc20_metadata

\* The mint letting every signing sender through.
mint_impl_AnySender(metadata, balances, sender, to, amount) ==
    LET m == Unwrap(metadata) IN
    IF sender = ""
    THEN [result |-> "Unauthorized", metadata |-> metadata, balances |-> balances]
    ELSE IF ~safe_math_add_ok(m.total_supply, amount)
    THEN [result |-> "Overflow", metadata |-> metadata, balances |-> balances]
    ELSE LET saved == Some([m EXCEPT !.total_supply = m.total_supply + amount]) IN
         IF to = ""
         THEN \* read_balance asserts a non-empty address
              [result |-> "panic", metadata |-> saved, balances |-> balances]
         ELSE LET current_balance == read_balance(balances, to) IN
              IF ~safe_math_add_ok(current_balance, amount)
              THEN [result |-> "Overflow", metadata |-> saved, balances |-> balances]
              ELSE [result |-> "Ok", metadata |-> saved,
                    balances |-> write_balance(balances, to, current_balance + amount)]

\* Result of execute_mint past its argument checks: the Result it returns
\* (or "panic") and the metadata and balances it leaves in storage.
\* save_metadata runs before the recipient's balance is read and added to.
mint_impl(metadata, balances, sender, to, amount) ==
    LET m == Unwrap(metadata) IN
    IF sender # m.owner
    THEN [result |-> "Unauthorized", metadata |-> metadata, balances |-> balances]
    ELSE IF ~safe_math_add_ok(m.total_supply, amount)
    THEN [result |-> "Overflow", metadata |-> metadata, balances |-> balances]
    ELSE LET saved == Some([m EXCEPT !.total_supply = m.total_supply + amount]) IN
         IF to = ""
         THEN \* read_balance asserts a non-empty address
              [result |-> "panic", metadata |-> saved, balances |-> balances]
         ELSE LET current_balance == read_balance(balances, to) IN
              IF ~safe_math_add_ok(current_balance, amount)
              THEN [result |-> "Overflow", metadata |-> saved, balances |-> balances]
              ELSE [result |-> "Ok", metadata |-> saved,
                    balances |-> write_balance(balances, to, current_balance + amount)]

execute_mint(sender, to, amount) ==
    IF ~ensure_initialized \/ ~validate_positive_amount(amount)
    THEN Fail20("mint", "InvalidArgument")
    ELSE LET r == mint_impl(crc20_metadata, crc20_balances, sender, to, amount) IN
         /\ crc20_last' = Call20("mint", r.result)
         /\ crc20_events' = IF r.result = "Ok"
                            THEN <<TransferEvent(ZERO_ADDRESS, to, amount)>>
                            ELSE << >>
         /\ UNCHANGED crc20_allowances
         /\ IF r.result = "panic"
            THEN \* the invocation traps: the host aborts it and discards the
                 \* writes it made
                 UNCHANGED <<crc20_metadata, crc20_balances>>
            ELSE /\ crc20_metadata' = r.metadata
                 /\ crc20_balances' = r.balances

\* Read entry points
execute_balance_of(account) == read_balance(crc20_balances, account)
execute_total_supply == Unwrap(crc20_metadata).total_supply

Init20 ==
    /\ crc20_metadata = None
    /\ crc20_balances = [a \in Accounts20 |-> 0]
    /\ crc20_allowances = [k \in Accounts20 \X Accounts20 |-> 0]
    /\ crc20_events = << >>
    /\ crc20_last = Call20("none", "Ok")

Crc20Initialize ==
    /\ \E s \in Senders20, n \in Names20, y \in Symbols20, d \in Decimals20, a \in U64 :
          execute_initialize(s, n, y, d, a)
    /\ UNCHANGED vars721
Crc20Transfer ==
    /\ \E s \in Senders20, t \in Addrs20, a \in U64 : execute_transfer(s, t, a)
    /\ UNCHANGED vars721
Crc20Approve ==
    /\ \E s \in Senders20, p \in Spenders20, a \in U64 : execute_approve(s, p, a)
    /\ UNCHANGED vars721
Crc20TransferFrom ==
    /\ \E s \in Senders20, f \in Addrs20, t \in Addrs20, a \in U64 :
          execute_transfer_from(s, f, t, a)
    /\ UNCHANGED vars721
Crc20Mint ==
    /\ \E s \in Senders20, t \in Addrs20, a \in U64 : execute_mint(s, t, a)
    /\ UNCHANGED vars721

----------------------------------------------------------------------------
(* crc721 *)

\* Transaction senders the host presents to crc721: signing accounts.  The
\* zero address "0x0" is the no-owner sentinel and never signs.
Callers721 == {"A", "B", "C"}
\* Address arguments (recipients, from) of crc721 calls: C only calls.
Addrs721 == {"", "0x0", "A", "B"}
\* Keys of the per-address maps.
Accounts721 == Addrs721 \ {""}
\* Operator arguments of set_approval_for_all.
Operators721 == {"", "C"}
\* Approved-address arguments of approve.
Approvees721 == {"", "B"}
TokenIds == {1, 2}
\* Longest sequence of crc721 invocations explored.
MaxCalls721 == 6
\* Longest sequence of crc721 invocations explored when invocations nest.
MaxNestedCalls721 == 5
Uris721 == {"", "u"}
Names721 == {"", "Chert Punks"}
Symbols721 == {"", "CPUNK"}
BaseUris721 == {"", "b/"}
Data721 == {<<1>>}

\* The latest invocation: its entry point and how it returned: "Ok" past
\* its event!, "Failed" through a branch that logs and returns before it,
\* "Reentered" through the branch taken when ReentrancyGuard::enter() fails.
Call721(op, result) == [op |-> op, result |-> result]

Transfer721Event(from, to, token_id) ==
    [name |-> "Transfer", from |-> from, to |-> to, token_id |-> token_id]
Approval721Event(owner, approved, token_id) ==
    [name |-> "Approval", owner |-> owner, approved |-> approved, token_id |-> token_id]
ApprovalForAllEvent(owner, operator, approved) ==
    [name |-> "ApprovalForAll", owner |-> owner, operator |-> operator,
     approved |-> approved]
CollectionInitializedEvent(name, symbol, base_uri, owner) ==
    [name |-> "CollectionInitialized", collection |-> name, symbol |-> symbol,
     base_uri |-> base_uri, owner |-> owner]

\* safe_math::add(a, 1).unwrap_or(d) and safe_math::sub(a, 1).unwrap_or(d)
add1_unwrap_or(a, d) == IF safe_math_add_ok(a, 1) THEN a + 1 ELSE d
\* The decrement that hands back the count it was given.
sub1_unwrap_or_Kept(a, d) == IF safe_math_sub_ok(a, 1) THEN a ELSE d
sub1_unwrap_or(a, d) == IF safe_math_sub_ok(a, 1) THEN a - 1 ELSE d

\* Vec::iter().position(..) followed by Vec::remove(pos)
RECURSIVE remove_first(_, _)
remove_first(v, x) ==
    IF v = << >> THEN << >>
    ELSE IF Head(v) = x THEN Tail(v)
    ELSE <<Head(v)>> \o remove_first(Tail(v), x)

is_owner(caller) ==
    /\ IsSome(collection_metadata)
    /\ caller = Unwrap(collection_metadata).owner

\* The operator key is built from the collection owner (metadata.owner).
is_approved_for_token(token_id, address) ==
    IF ~IsSome(collection_metadata) THEN FALSE
    ELSE IF <<Unwrap(collection_metadata).owner, address>> \in operator_approvals
    THEN TRUE
    ELSE IF Has(token_approvals, token_id)
    THEN token_approvals[token_id] = address
    ELSE FALSE

\* The check treating a burned token's id as free again.
token_exists_UnlessBurned(tokens_map, token_id) ==
    Has(tokens_map, token_id) /\ ~tokens_map[token_id].burned

\* mint's check that the token id is taken
token_exists(tokens_map, token_id) == Has(tokens_map, token_id)

\* A guarded entry point that finds the lock held returns at once.
Reentered721(op) ==
    /\ crc721_last' = Call721(op, "Reentered")
    /\ crc721_events' = << >>
    /\ UNCHANGED <<store721, reentrancy_locked>>

\* An early return of an entry point that takes no guard.
Return721(op) ==
    /\ crc721_last' = Call721(op, "Failed")
    /\ crc721_events' = << >>
    /\ UNCHANGED <<store721, reentrancy_locked>>

\* The early return that leaves the lock held.
Fail721_LockHeld(op) ==
    /\ crc721_last' = Call721(op, "Failed")
    /\ crc721_events' = << >>
    /\ reentrancy_locked' = TRUE
    /\ UNCHANGED store721

\* An early return of a guarded entry point before any write; _guard goes
\* out of scope and the lock is released.
Fail721(op) ==
    /\ crc721_last' = Call721(op, "Failed")
    /\ crc721_events' = << >>
    /\ reentrancy_locked' = FALSE
    /\ UNCHANGED store721

crc721_initialize(caller, name, symbol, base_uri) ==
    IF name = "" THEN Return721("initialize")
    ELSE IF symbol = "" THEN Return721("initialize")
    ELSE IF base_uri = "" THEN Return721("initialize")
    ELSE /\ collection_metadata' = Some([name |-> name, symbol |-> symbol,
                                         base_uri |-> base_uri, total_supply |-> 0,
                                         owner |-> caller, initialized |-> TRUE])
         /\ crc721_events' = <<CollectionInitializedEvent(name, symbol, base_uri, caller)>>
         /\ crc721_last' = Call721("initialize", "Ok")
         /\ UNCHANGED <<tokens, crc721_balances, token_approvals, operator_approvals,
                        all_tokens, owner_tokens, reentrancy_locked>>

\* mint past its ReentrancyGuard::enter()
mint_past_guard(caller, to, token_id, metadata_uri) ==
    IF ~is_owner(caller) THEN Fail721("mint")
    ELSE IF to = "" THEN Fail721("mint")
    ELSE IF metadata_uri = "" THEN Fail721("mint")
    ELSE IF token_exists(tokens, token_id)
    THEN Fail721("mint")
    ELSE LET token_info == [token_id |-> token_id, owner |-> to,
                            metadata_uri |-> metadata_uri, burned |-> FALSE]
             current_balance == GetOr(crc721_balances, to, 0)
             new_balance == add1_unwrap_or(current_balance, 0)
             m == Unwrap(collection_metadata)
         IN /\ tokens' = Set(tokens, token_id, token_info)
            /\ crc721_balances' = Set(crc721_balances, to, new_balance)
            /\ all_tokens' = Append(all_tokens, token_id)
            /\ owner_tokens' = [owner_tokens EXCEPT ![to] = Append(@, token_id)]
            /\ collection_metadata' =
                 Some([m EXCEPT !.total_supply = add1_unwrap_or(m.total_supply,
                                                                m.total_supply)])
            /\ crc721_events' = <<Transfer721Event("0x0", to, token_id)>>
            /\ crc721_last' = Call721("mint", "Ok")
            /\ reentrancy_locked' = FALSE
            /\ UNCHANGED <<token_approvals, operator_approvals>>

crc721_mint(caller, to, token_id, metadata_uri) ==
    IF reentrancy_locked THEN Reentered721("mint")
    ELSE mint_past_guard(caller, to, token_id, metadata_uri)

\* transfer_from past its ReentrancyGuard::enter(); op is the entry point
\* it was reached through.
transfer_from_past_guard(op, caller, from, to, token_id) ==
    IF from = "" \/ to = ""
    THEN Fail721(op)
    ELSE IF ~Has(tokens, token_id) THEN Fail721(op)
    ELSE LET token_info == tokens[token_id] IN
    IF token_info.owner # from
    THEN Fail721(op)
    ELSE IF token_info.owner # caller /\ ~is_approved_for_token(token_id, caller)
    THEN Fail721(op)
    ELSE LET tokens1 == Set(tokens, token_id, [token_info EXCEPT !.owner = to])
             from_balance == GetOr(crc721_balances, from, 0)
         IN
         IF from_balance = 0
         THEN \* "Sender has no tokens to transfer": returns after the token
              \* record was rewritten
              /\ tokens' = tokens1
              /\ crc721_events' = << >>
              /\ crc721_last' = Call721(op, "Failed")
              /\ reentrancy_locked' = FALSE
              /\ UNCHANGED <<collection_metadata, crc721_balances, token_approvals,
                             operator_approvals, all_tokens, owner_tokens>>
         ELSE LET balances1 == Set(crc721_balances, from, sub1_unwrap_or(from_balance, 0))
                  to_balance == GetOr(balances1, to, 0)
                  balances2 == Set(balances1, to, add1_unwrap_or(to_balance, 0))
                  sender_tokens == remove_first(owner_tokens[from], token_id)
                  owner_tokens1 == [owner_tokens EXCEPT ![from] = sender_tokens]
                  recipient_tokens == Append(owner_tokens1[to], token_id)
              IN /\ tokens' = tokens1
                 /\ crc721_balances' = balances2
                 /\ token_approvals' = Set(token_approvals, token_id, "")
                 /\ owner_tokens' = [owner_tokens1 EXCEPT ![to] = recipient_tokens]
                 /\ crc721_events' = <<Transfer721Event(from, to, token_id)>>
                 /\ crc721_last' = Call721(op, "Ok")
                 /\ reentrancy_locked' = FALSE
                 /\ UNCHANGED <<collection_metadata, operator_approvals, all_tokens>>

\* The body of transfer_from; op is the entry point it was reached through.
transfer_from_body(op, caller, from, to, token_id) ==
    IF reentrancy_locked
    THEN Reentered721(op)
    ELSE transfer_from_past_guard(op, caller, from, to, token_id)

crc721_transfer_from(caller, from, to, token_id) ==
    transfer_from_body("transfer_from", caller, from, to, token_id)

\* safe_transfer_from calls transfer_from and then only logs data.
crc721_safe_transfer_from(caller, from, to, token_id, data) ==
    transfer_from_body("safe_transfer_from", caller, from, to, token_id)

\* approve open to the token-approved address and to operators as well.
crc721_approve_ByApproved(caller, to, token_id) ==
    IF ~Has(tokens, token_id) THEN Return721("approve")
    ELSE IF tokens[token_id].owner # caller /\ ~is_approved_for_token(token_id, caller)
    THEN Return721("approve")
    ELSE IF to = caller THEN Return721("approve")
    ELSE /\ token_approvals' = Set(token_approvals, token_id, to)
         /\ crc721_events' = <<Approval721Event(caller, to, token_id)>>
         /\ crc721_last' = Call721("approve", "Ok")
         /\ UNCHANGED <<collection_metadata, tokens, crc721_balances,
                        operator_approvals, all_tokens, owner_tokens,
                        reentrancy_locked>>

crc721_approve(caller, to, token_id) ==
    IF ~Has(tokens, token_id) THEN Return721("approve")
    ELSE IF tokens[token_id].owner # caller
    THEN Return721("approve")
    ELSE IF to = caller THEN Return721("approve")
    ELSE /\ token_approvals' = Set(token_approvals, token_id, to)
         /\ crc721_events' = <<Approval721Event(caller, to, token_id)>>
         /\ crc721_last' = Call721("approve", "Ok")
         /\ UNCHANGED <<collection_metadata, tokens, crc721_balances,
                        operator_approvals, all_tokens, owner_tokens,
                        reentrancy_locked>>

crc721_set_approval_for_all(caller, operator, approved) ==
    IF operator = ""
    THEN Return721("set_approval_for_all")
    ELSE IF operator = caller
    THEN Return721("set_approval_for_all")
    ELSE IF ~IsSome(collection_metadata)
    THEN Return721("set_approval_for_all")
    ELSE /\ operator_approvals' =
              IF approved THEN operator_approvals \cup {<<caller, operator>>}
              ELSE operator_approvals \ {<<caller, operator>>}
         /\ crc721_events' = <<ApprovalForAllEvent(caller, operator, approved)>>
         /\ crc721_last' = Call721("set_approval_for_all", "Ok")
         /\ UNCHANGED <<collection_metadata, tokens, crc721_balances,
                        token_approvals, all_tokens, owner_tokens, reentrancy_locked>>

\* burn past its ReentrancyGuard::enter()
burn_past_guard(caller, token_id) ==
    IF ~Has(tokens, token_id) THEN Fail721("burn")
    ELSE LET token_info == tokens[token_id] IN
    IF token_info.owner # caller /\ ~is_approved_for_token(token_id, caller)
    THEN Fail721("burn")
    ELSE \* token_info.owner is overwritten with "0x0" before the balance of
         \* token_info.owner is looked up
         LET burned_info == [token_info EXCEPT !.burned = TRUE, !.owner = "0x0"]
             tokens1 == Set(tokens, token_id, burned_info)
         IN
         IF ~Has(crc721_balances, burned_info.owner)
         THEN \* "Owner balance not found": returns after the token record
              \* was rewritten
              /\ tokens' = tokens1
              /\ crc721_events' = << >>
              /\ crc721_last' = Call721("burn", "Failed")
              /\ reentrancy_locked' = FALSE
              /\ UNCHANGED <<collection_metadata, crc721_balances, token_approvals,
                             operator_approvals, all_tokens, owner_tokens>>
         ELSE LET owner_balance == crc721_balances[burned_info.owner] IN
              /\ tokens' = tokens1
              /\ crc721_balances' =
                    IF owner_balance > 0
                    THEN Set(crc721_balances, burned_info.owner,
                             sub1_unwrap_or(owner_balance, 0))
                    ELSE crc721_balances
              /\ token_approvals' = Set(token_approvals, token_id, "")
              /\ operator_approvals' =
                    operator_approvals \ {<<burned_info.owner, "operator1">>,
                                          <<burned_info.owner, "operator2">>}
              /\ crc721_events' = <<Transfer721Event(caller, "0x0", token_id)>>
              /\ crc721_last' = Call721("burn", "Ok")
              /\ reentrancy_locked' = FALSE
              /\ UNCHANGED <<collection_metadata, all_tokens, owner_tokens>>

\* burn running its body whether or not the lock is held.
crc721_burn_Unguarded(caller, token_id) == burn_past_guard(caller, token_id)

crc721_burn(caller, token_id) ==
    IF reentrancy_locked THEN Reentered721("burn")
    ELSE burn_past_guard(caller, token_id)

\* Read entry points
owner_of(token_id) ==
    IF Has(tokens, token_id)
    THEN IF tokens[token_id].burned THEN "0x0" ELSE tokens[token_id].owner
    ELSE "0x0"
balance_of(owner) == IF owner = "" THEN 0 ELSE GetOr(crc721_balances, owner, 0)
get_approved(token_id) == GetOr(token_approvals, token_id, "0x0")
is_approved_for_all(owner, operator) ==
    IF owner = "" \/ operator = "" THEN FALSE
    ELSE <<owner, operator>> \in operator_approvals
token_uri(token_id) ==
    IF Has(tokens, token_id)
    THEN IF ~IsSome(collection_metadata) THEN ""
         ELSE IF tokens[token_id].burned THEN ""
         ELSE Unwrap(collection_metadata).base_uri \o tokens[token_id].metadata_uri
    ELSE ""
total_supply == IF IsSome(collection_metadata)
                THEN Unwrap(collection_metadata).total_supply ELSE 0
\* `index as usize`: the u64 argument keeps its low bits.
as_usize(index) == index % UsizeModulus
token_by_index(index) ==
    IF as_usize(index) < Len(all_tokens) THEN all_tokens[as_usize(index) + 1] ELSE 0
token_of_owner_by_index(owner, index) ==
    IF owner = "" THEN 0
    ELSE IF as_usize(index) < Len(owner_tokens[owner])
    THEN owner_tokens[owner][as_usize(index) + 1] ELSE 0

Init721 ==
    /\ collection_metadata = None
    /\ tokens = EmptyMap
    /\ crc721_balances = EmptyMap
    /\ token_approvals = EmptyMap
    /\ operator_approvals = {}
    /\ all_tokens = << >>
    /\ owner_tokens = [a \in Accounts721 |-> << >>]
    /\ reentrancy_locked = FALSE
    /\ crc721_events = << >>
    /\ crc721_last = Call721("none", "Ok")
    /\ calls721 = 0
    /\ mint_ok_count = [id \in TokenIds |-> 0]
    /\ in_flight = 0

Crc721Initialize ==
    /\ calls721 < MaxCalls721
    /\ UNCHANGED <<mint_ok_count, in_flight>>
    /\ calls721' = calls721 + 1
    /\ \E c \in Callers721, n \in Names721, y \in Symbols721, b \in BaseUris721 :
          crc721_initialize(c, n, y, b)
    /\ UNCHANGED vars20
Crc721Mint ==
    /\ calls721 < MaxCalls721
    /\ UNCHANGED in_flight
    /\ calls721' = calls721 + 1
    /\ \E c \in Callers721, t \in Addrs721, id \in TokenIds, u \in Uris721 :
          /\ crc721_mint(c, t, id, u)
          /\ mint_ok_count' = IF crc721_last'.result = "Ok"
                               THEN [mint_ok_count EXCEPT ![id] = @ + 1]
                               ELSE mint_ok_count
    /\ UNCHANGED vars20
Crc721TransferFrom ==
    /\ calls721 < MaxCalls721
    /\ UNCHANGED <<mint_ok_count, in_flight>>
    /\ calls721' = calls721 + 1
    /\ \E c \in Callers721, f \in Addrs721, t \in Addrs721, id \in TokenIds :
          crc721_transfer_from(c, f, t, id)
    /\ UNCHANGED vars20
Crc721SafeTransferFrom ==
    /\ calls721 < MaxCalls721
    /\ UNCHANGED <<mint_ok_count, in_flight>>
    /\ calls721' = calls721 + 1
    /\ \E c \in Callers721, f \in Addrs721, t \in Addrs721, id \in TokenIds,
          d \in Data721 :
          crc721_safe_transfer_from(c, f, t, id, d)
    /\ UNCHANGED vars20
Crc721Approve ==
    /\ calls721 < MaxCalls721
    /\ UNCHANGED <<mint_ok_count, in_flight>>
    /\ calls721' = calls721 + 1
    /\ \E c \in Callers721, t \in Approvees721, id \in TokenIds :
          crc721_approve(c, t, id)
    /\ UNCHANGED vars20
Crc721SetApprovalForAll ==
    /\ calls721 < MaxCalls721
    /\ UNCHANGED <<mint_ok_count, in_flight>>
    /\ calls721' = calls721 + 1
    /\ \E c \in Callers721, o \in Operators721, a \in BOOLEAN :
          crc721_set_approval_for_all(c, o, a)
    /\ UNCHANGED vars20
Crc721Burn ==
    /\ calls721 < MaxCalls721
    /\ UNCHANGED <<mint_ok_count, in_flight>>
    /\ calls721' = calls721 + 1
    /\ \E c \in Callers721, id \in TokenIds : crc721_burn(c, id)
    /\ UNCHANGED vars20

\* A guarded entry point (mint, transfer_from, burn) has been invoked with
\* the lock free and is past ReentrancyGuard::enter(): the lock is held
\* and the invocation has not returned.  Its arguments are first read by
\* its body, which the matching Resume step runs.
Crc721Enter ==
    /\ calls721 < MaxNestedCalls721
    /\ ~reentrancy_locked
    /\ reentrancy_locked' = TRUE
    /\ in_flight' = in_flight + 1
    /\ calls721' = calls721 + 1
    /\ UNCHANGED <<store721, crc721_events, crc721_last, mint_ok_count, vars20>>

\* The invocation in flight runs to its return.
Crc721ResumeMint ==
    /\ in_flight > 0
    /\ in_flight' = in_flight - 1
    /\ \E c \in Callers721, t \in Addrs721, id \in TokenIds, u \in Uris721 :
          /\ mint_past_guard(c, t, id, u)
          /\ mint_ok_count' = IF crc721_last'.result = "Ok"
                               THEN [mint_ok_count EXCEPT ![id] = @ + 1]
                               ELSE mint_ok_count
    /\ UNCHANGED <<calls721, vars20>>
Crc721ResumeTransferFrom ==
    /\ in_flight > 0
    /\ in_flight' = in_flight - 1
    /\ \E op \in {"transfer_from", "safe_transfer_from"}, c \in Callers721,
          f \in Addrs721, t \in Addrs721, id \in TokenIds :
          transfer_from_past_guard(op, c, f, t, id)
    /\ UNCHANGED <<calls721, mint_ok_count, vars20>>
Crc721ResumeBurn ==
    /\ in_flight > 0
    /\ in_flight' = in_flight - 1
    /\ \E c \in Callers721, id \in TokenIds : burn_past_guard(c, id)
    /\ UNCHANGED <<calls721, mint_ok_count, vars20>>

----------------------------------------------------------------------------
Init == Init20 /\ Init721

Next20 ==
    \/ Crc20Initialize
    \/ Crc20Transfer
    \/ Crc20Approve
    \/ Crc20TransferFrom
    \/ Crc20Mint

Next721 ==
    \/ Crc721Initialize
    \/ Crc721Mint
    \/ Crc721TransferFrom
    \/ Crc721SafeTransferFrom
    \/ Crc721Approve
    \/ Crc721SetApprovalForAll
    \/ Crc721Burn

Spec20 == Init /\ [][Next20]_vars
Spec721 == Init /\ [][Next721]_vars

\* The registry with invocations that begin while a guarded invocation is
\* in flight.
Next721Nested ==
    \/ (calls721 < MaxNestedCalls721 /\ Crc721Initialize)
    \/ (calls721 < MaxNestedCalls721 /\ Crc721Mint)
    \/ (calls721 < MaxNestedCalls721 /\ Crc721TransferFrom)
    \/ (calls721 < MaxNestedCalls721 /\ Crc721SafeTransferFrom)
    \/ (calls721 < MaxNestedCalls721 /\ Crc721Approve)
    \/ (calls721 < MaxNestedCalls721 /\ Crc721SetApprovalForAll)
    \/ (calls721 < MaxNestedCalls721 /\ Crc721Burn)
    \/ Crc721Enter
    \/ Crc721ResumeMint
    \/ Crc721ResumeTransferFrom
    \/ Crc721ResumeBurn

Spec721Nested == Init /\ [][Next721Nested]_vars

\* The registry with one token id more than a u64 count can hold, so that
\* the counts of mint and transfer_from reach the end of their range.
WideTokenIds == 1..(U64Max + 1)
Crc721MintWide ==
    /\ calls721 < MaxCalls721
    /\ UNCHANGED <<mint_ok_count, in_flight>>
    /\ calls721' = calls721 + 1
    /\ \E c \in Callers721, t \in Addrs721, id \in WideTokenIds, u \in Uris721 :
          crc721_mint(c, t, id, u)
    /\ UNCHANGED vars20
Crc721TransferFromWide ==
    /\ calls721 < MaxCalls721
    /\ UNCHANGED <<mint_ok_count, in_flight>>
    /\ calls721' = calls721 + 1
    /\ \E c \in Callers721, f \in Addrs721, t \in Addrs721, id \in WideTokenIds :
          crc721_transfer_from(c, f, t, id)
    /\ UNCHANGED vars20

Next721Wide ==
    \/ Crc721Initialize
    \/ Crc721MintWide
    \/ Crc721TransferFromWide

Spec721Wide == Init /\ [][Next721Wide]_vars

----------------------------------------------------------------------------
(* Claims about crc20 *)

SumBalances20 == SumMap(crc20_balances)
Errors20 == {"InvalidArgument", "InsufficientBalance", "Overflow", "Unauthorized"}

\* C1: once the ledger is initialized, the sum of all stored balances equals
\* metadata.total_supply in every reachable state.
C1_SupplyConserved ==
    IsSome(crc20_metadata) =>
        SumBalances20 = Unwrap(crc20_metadata).total_supply

\* C5: a transfer whose recipient is the sender, with amount > 0 and a
\* sufficient balance, succeeds and leaves the sender's balance as it was.
C5_SelfTransferKeepsBalance ==
    [][\A s \in Accounts20, a \in U64 :
          (/\ a > 0
           /\ crc20_balances[s] >= a
           /\ execute_transfer(s, s, a))
          => (/\ crc20_last'.result = "Ok"
              /\ crc20_balances'[s] = crc20_balances[s])]_vars

\* C7: a transfer or transfer_from that returns an error leaves the
\* balances, the allowances and the metadata unchanged and emits no event.
C7_FailedTransferWritesNothing ==
    [][(/\ crc20_last'.op \in {"transfer", "transfer_from"}
        /\ crc20_last'.result \in Errors20)
       => (UNCHANGED store20 /\ crc20_events' = << >>)]_vars

\* C7 witness: a transfer_from whose sender subtraction succeeded and whose
\* recipient addition overflowed has returned, with the payer still holding
\* a balance.
C7_Witness ==
    /\ crc20_last = Call20("transfer_from", "Overflow")
    /\ \E a \in Accounts20 : crc20_balances[a] > 0

\* C8: a mint that returns an error leaves total_supply and every balance
\* unchanged and emits no event.
C8_FailedMintWritesNothing ==
    [][(/\ crc20_last'.op = "mint"
        /\ crc20_last'.result \in Errors20)
       => (UNCHANGED <<crc20_metadata, crc20_balances>> /\ crc20_events' = << >>)]_vars

----------------------------------------------------------------------------
(* Claims about crc721 *)

RegistryOps == {"mint", "transfer_from", "safe_transfer_from", "approve",
                "set_approval_for_all", "burn"}

\* The callers the registry is meant to let move or burn a token: its
\* recorded owner, its token-approved address, an operator of its owner.
AuthorizedForToken(caller, token_id) ==
    /\ Has(tokens, token_id)
    /\ \/ tokens[token_id].owner = caller
       \/ (Has(token_approvals, token_id) /\ token_approvals[token_id] = caller)
       \/ <<tokens[token_id].owner, caller>> \in operator_approvals

Live(token_id) == Has(tokens, token_id) /\ ~tokens[token_id].burned

RECURSIVE Occurrences(_, _)
Occurrences(v, x) ==
    IF v = << >> THEN 0
    ELSE (IF Head(v) = x THEN 1 ELSE 0) + Occurrences(Tail(v), x)

\* C2: a transfer_from or burn changes stored state only when its caller is
\* the token's recorded owner, its token-approved address or an operator
\* approved by the token's recorded owner.
C2_OnlyAuthorizedCallersWrite ==
    [][\A c \in Callers721, id \in TokenIds :
          (/\ ~AuthorizedForToken(c, id)
           /\ \/ \E f \in Addrs721, t \in Addrs721 : crc721_transfer_from(c, f, t, id)
              \/ crc721_burn(c, id))
          => UNCHANGED store721]_vars

\* C3: every minted, non-burned token has one recorded owner whose
\* per-owner index contains the token_id exactly once.
C3_OwnerIndexHoldsTokenOnce ==
    \A id \in TokenIds :
        Live(id) =>
            /\ tokens[id].owner \in Accounts721
            /\ Occurrences(owner_tokens[tokens[id].owner], id) = 1

\* C4: the stored balance count of every address equals the number of
\* non-burned tokens whose recorded owner it is.
C4_BalanceCountsLiveTokens ==
    \A a \in Accounts721 :
        balance_of(a) = Cardinality({id \in TokenIds : Live(id) /\ tokens[id].owner = a})

\* C6: a registry call that returns through a failure branch, without its
\* event, leaves every stored map and the collection metadata unchanged.
C6_FailedCallWritesNothing ==
    [][(crc721_last'.op \in RegistryOps /\ crc721_last'.result = "Failed")
       => UNCHANGED store721]_vars

\* C9: mint succeeds at most once per token_id, and a mint naming a token_id
\* that was minted before fails and leaves all stored state unchanged.
C9_MintOncePerTokenId ==
    [][/\ \A id \in TokenIds : mint_ok_count'[id] <= 1
       /\ crc721_last'.op = "mint" =>
             \/ (crc721_last'.result = "Failed" /\ UNCHANGED store721)
             \/ \A id \in {i \in TokenIds : mint_ok_count[i] >= 1} :
                   \A c \in Callers721, t \in Addrs721, u \in Uris721 :
                      ~crc721_mint(c, t, id, u)]_vars

\* C9 witness: a mint has failed when every token_id had been minted once,
\* one of them since burned and another now held by an address.
C9_Witness ==
    /\ crc721_last = Call721("mint", "Failed")
    /\ \A id \in TokenIds : mint_ok_count[id] = 1
    /\ \E id \in TokenIds : tokens[id].burned
    /\ \E id \in TokenIds : ~tokens[id].burned

\* C10: once a token's record has burned = true, no later mint,
\* transfer_from, safe_transfer_from, approve or burn naming it changes
\* stored state; the record stays, burned and owned by the zero address,
\* and owner_of / token_uri report "0x0" / "".
C10_BurnedIsTerminal ==
    [][\A id \in TokenIds :
          (Has(tokens, id) /\ tokens[id].burned) =>
             /\ Has(tokens', id)
             /\ tokens'[id].burned
             /\ tokens'[id].owner = "0x0"
             /\ owner_of(id)' = "0x0"
             /\ token_uri(id)' = ""
             /\ \A c \in Callers721 :
                   (\/ \E t \in Addrs721, u \in Uris721 : crc721_mint(c, t, id, u)
                    \/ \E f \in Addrs721, t \in Addrs721 :
                          \/ crc721_transfer_from(c, f, t, id)
                          \/ \E d \in Data721 : crc721_safe_transfer_from(c, f, t, id, d)
                    \/ \E t \in Approvees721 : crc721_approve(c, t, id)
                    \/ crc721_burn(c, id))
                   => UNCHANGED store721]_vars

\* C11: a burn of a non-burned token by its owner or an authorized address
\* leaves the record burned, owner_of "0x0", token_uri "", and the prior
\* owner's balance count (when it was > 0) exactly one less than before.
C11_BurnSettlesPriorOwner ==
    [][\A c \in Callers721, id \in TokenIds :
          (/\ Live(id)
           /\ AuthorizedForToken(c, id)
           /\ crc721_burn(c, id))
          => LET prior == tokens[id].owner IN
             /\ Has(tokens', id) /\ tokens'[id].burned
             /\ owner_of(id)' = "0x0"
             /\ token_uri(id)' = ""
             /\ balance_of(prior) > 0 =>
                   balance_of(prior)' = balance_of(prior) - 1]_vars

\* C12: a transfer_from(from, to, amount) called by spender S succeeds only
\* if allowance(from, S) >= amount and balance(from) >= amount held before
\* the call; on success allowance(from, S) is decreased by exactly amount,
\* stays >= 0, and no other allowance changes.
C12_TransferFromSpendsAllowance ==
    [][crc20_last' = Call20("transfer_from", "Ok") =>
       \A s \in Senders20, f \in Addrs20, t \in Addrs20, a \in U64 :
          execute_transfer_from(s, f, t, a)
          => /\ <<f, s>> \in DOMAIN crc20_allowances
             /\ crc20_allowances[<<f, s>>] >= a
             /\ crc20_balances[f] >= a
             /\ crc20_allowances' =
                   [crc20_allowances EXCEPT ![<<f, s>>] = @ - a]
             /\ crc20_allowances'[<<f, s>>] >= 0]_vars

\* C12 witness: a transfer_from has succeeded spending part of an allowance:
\* the payer's allowance to the spending account is still positive.
C12_Witness ==
    /\ crc20_last = Call20("transfer_from", "Ok")
    /\ crc20_allowances[<<crc20_events[1].from, "B">>] > 0

\* C13: a successful approve(spender, N) by caller O sets allowance(O,
\* spender) to exactly N whatever it was before (N = 0 revokes) and changes
\* no other allowance, no balance and no metadata.
C13_ApproveSetsExactly ==
    [][crc20_last' = Call20("approve", "Ok") =>
       \A s \in Senders20, p \in Spenders20, a \in U64 :
          execute_approve(s, p, a)
          => /\ <<s, p>> \in DOMAIN crc20_allowances
             /\ crc20_allowances'[<<s, p>>] = a
             /\ \A k \in DOMAIN crc20_allowances \ {<<s, p>>} :
                   crc20_allowances'[k] = crc20_allowances[k]
             /\ DOMAIN crc20_allowances' = DOMAIN crc20_allowances
             /\ UNCHANGED <<crc20_balances, crc20_metadata>>]_vars

\* C13 witness: an approve of 0 has succeeded, revoking one allowance while
\* another owner's allowance stands.
C13_Witness ==
    /\ crc20_last = Call20("approve", "Ok")
    /\ crc20_events[1].amount = 0
    /\ crc20_allowances[<<crc20_events[1].from, crc20_events[1].to>>] = 0
    /\ \E k \in DOMAIN crc20_allowances : crc20_allowances[k] > 0

\* C14: across any single step, allowance(O, S) increases only if the step
\* is a successful approve called by O naming spender S; every other
\* operation leaves it equal or smaller.
C14_AllowanceRisesOnlyByApprove ==
    [][\A k \in DOMAIN crc20_allowances :
          crc20_allowances'[k] > crc20_allowances[k]
          => /\ crc20_last' = Call20("approve", "Ok")
             /\ crc20_events'[1].from = k[1]
             /\ crc20_events'[1].to = k[2]
             /\ \E a \in U64 : execute_approve(k[1], k[2], a)]_vars

\* C14 witness: a transfer_from has succeeded and left the allowance it
\* spent at 0 while the payer still holds a balance.
C14_Witness ==
    /\ crc20_last = Call20("transfer_from", "Ok")
    /\ crc20_allowances[<<crc20_events[1].from, "B">>] = 0
    /\ crc20_balances[crc20_events[1].from] > 0

\* C15: once initialize has succeeded, every later initialize call (any
\* caller, any arguments) fails and has no effect: the metadata, every
\* balance and every allowance stay unchanged and no event is emitted.
C15_InitializeOnce ==
    [][(IsSome(crc20_metadata) /\ crc20_last'.op = "initialize")
       => /\ crc20_last'.result \in Errors20
          /\ UNCHANGED store20
          /\ crc20_events' = << >>]_vars

\* C15 witness: an initialize with valid arguments by another account
\* could not replace the metadata of a ledger whose owner holds its supply.
C15_Witness ==
    /\ crc20_last = Call20("initialize", "InvalidArgument")
    /\ IsSome(crc20_metadata)
    /\ crc20_balances[Unwrap(crc20_metadata).owner] > 0
    /\ Unwrap(crc20_metadata).total_supply > 0

\* C16: the collection metadata is created once: after a successful
\* initialize no later call changes the collection owner, name, symbol or
\* base_uri, and total_supply changes only by a successful mint, by +1.
C16_CollectionMetadataCreatedOnce ==
    [][IsSome(collection_metadata) =>
          /\ IsSome(collection_metadata')
          /\ LET m == Unwrap(collection_metadata)
                 n == Unwrap(collection_metadata')
             IN /\ n.owner = m.owner
                /\ n.name = m.name
                /\ n.symbol = m.symbol
                /\ n.base_uri = m.base_uri
                /\ n.total_supply # m.total_supply =>
                      /\ crc721_last' = Call721("mint", "Ok")
                      /\ n.total_supply = m.total_supply + 1]_vars

\* C17: a mint(to, amount) succeeds only when its caller is metadata.owner;
\* on success total_supply and balance(to) each increase by exactly amount
\* and no other balance, no allowance and no other metadata field changes.
C17_MintByOwnerAddsAmount ==
    [][crc20_last' = Call20("mint", "Ok") =>
       \A s \in Senders20, t \in Addrs20, a \in U64 :
          execute_mint(s, t, a)
          => /\ s = Unwrap(crc20_metadata).owner
             /\ crc20_metadata' =
                   Some([Unwrap(crc20_metadata) EXCEPT !.total_supply = @ + a])
             /\ t \in DOMAIN crc20_balances
             /\ crc20_balances' = [crc20_balances EXCEPT ![t] = @ + a]
             /\ UNCHANGED crc20_allowances]_vars

\* C17 witness: the owner has minted to another account while holding a
\* balance of its own and having granted an allowance.
C17_Witness ==
    /\ crc20_last = Call20("mint", "Ok")
    /\ crc20_events[1].to # Unwrap(crc20_metadata).owner
    /\ crc20_balances[Unwrap(crc20_metadata).owner] > 0
    /\ \E k \in DOMAIN crc20_allowances : crc20_allowances[k] > 0

\* C18: a successful transfer(to, amount) from sender S to a different
\* address decreases balance(S) by exactly amount, increases balance(to) by
\* exactly amount, leaves every other balance, every allowance and the
\* metadata (total_supply) unchanged, and emits one Transfer(S, to, amount).
C18_TransferMovesAmount ==
    [][crc20_last' = Call20("transfer", "Ok") =>
       \A s \in Senders20, t \in Addrs20, a \in U64 :
          (s # t /\ execute_transfer(s, t, a))
          => /\ {s, t} \subseteq DOMAIN crc20_balances
             /\ crc20_balances' =
                   [crc20_balances EXCEPT ![s] = @ - a, ![t] = @ + a]
             /\ crc20_balances'[s] >= 0
             /\ UNCHANGED <<crc20_allowances, crc20_metadata>>
             /\ crc20_events' =
                   <<[name |-> "Transfer", from |-> s, to |-> t, amount |-> a]>>]_vars

\* C18 witness: a transfer between two different accounts has succeeded,
\* moving part of the sender's balance.
C18_Witness ==
    /\ crc20_last = Call20("transfer", "Ok")
    /\ crc20_events[1].from # crc20_events[1].to
    /\ crc20_balances[crc20_events[1].from] > 0
    /\ crc20_balances[crc20_events[1].to] > 0

NoApproved == {"", "0x0"}

\* C20: after any transfer_from, safe_transfer_from or burn call that
\* changes a token's recorded owner, the token approval of that token is
\* empty: get_approved reports no approved address, so the address a
\* previous owner approved keeps no approval.
C20_OwnerChangeClearsApproval ==
    [][\A id \in TokenIds :
          (/\ crc721_last'.op \in {"transfer_from", "safe_transfer_from", "burn"}
           /\ Has(tokens, id)
           /\ tokens'[id].owner # tokens[id].owner)
          => get_approved(id)' \in NoApproved]_vars

\* C21: for a non-burned token owned by O, a transfer_from(O, to, token_id)
\* with non-empty `to` succeeds when its caller is O, the address currently
\* token-approved for the token, or an operator for which O's latest
\* set_approval_for_all set approved = true.
C21_AuthorizedTransferSucceeds ==
    [][crc721_last'.op = "transfer_from" =>
       \A c \in Callers721, t \in Addrs721 \ {""}, id \in TokenIds :
          (/\ Live(id)
           /\ AuthorizedForToken(c, id)
           /\ crc721_transfer_from(c, tokens[id].owner, t, id))
          => crc721_last'.result = "Ok"]_vars

\* The token_ids listed in a Vec<u64> index.
Range(v) == {v[i] : i \in 1..Len(v)}

\* C22: in every reachable state, for every address the set of token_ids in
\* its per-owner enumeration index equals the set of non-burned token_ids
\* whose record owner it is.
C22_OwnerIndexMatchesRecords ==
    \A a \in Accounts721 :
        Range(owner_tokens[a]) = {id \in TokenIds : Live(id) /\ tokens[id].owner = a}

\* C23: approve(to, token_id) changes the token approval only when its
\* caller is the token's current recorded owner and `to` differs from that
\* owner, and then changes nothing but that token's approval; a call by
\* anyone else (an approved address or operator included), on a
\* non-existent token, or with `to` equal to the owner changes no state.
C23_ApproveOnlyByOwner ==
    [][crc721_last'.op = "approve" =>
       \A c \in Callers721, t \in Approvees721, id \in TokenIds :
          crc721_approve(c, t, id)
          => IF Has(tokens, id) /\ tokens[id].owner = c /\ t # c
             THEN /\ token_approvals' = Set(token_approvals, id, t)
                  /\ UNCHANGED <<collection_metadata, tokens, crc721_balances,
                                 operator_approvals, all_tokens, owner_tokens>>
             ELSE UNCHANGED store721]_vars

\* C23 witness: an approve has been refused while a token held by one
\* address carries a token approval for another and an operator approval
\* is in force.
C23_Witness ==
    /\ crc721_last = Call721("approve", "Failed")
    /\ operator_approvals # {}
    /\ \E id \in TokenIds :
          /\ Live(id)
          /\ Has(token_approvals, id)
          /\ token_approvals[id] = "B"
          /\ tokens[id].owner = "A"

\* C26: the global token index is append-only and complete: every step
\* leaves the previous global sequence as a prefix of the new one, each
\* successfully minted token_id appears in it exactly once (burned ones
\* included) and no other id appears, and token_by_index(i) returns 0 for
\* every i at or beyond its length.
C26_GlobalIndexAppendOnly ==
    [][/\ Len(all_tokens') >= Len(all_tokens)
       /\ SubSeq(all_tokens', 1, Len(all_tokens)) = all_tokens
       /\ \A id \in TokenIds :
             Occurrences(all_tokens', id) = IF mint_ok_count'[id] >= 1 THEN 1 ELSE 0
       /\ \A i \in U64 :
             i >= Len(all_tokens') => token_by_index(i)' = 0]_vars

----------------------------------------------------------------------------
\* C28: every burn that marks a token burned emits exactly one Transfer
\* event, from the owner the token's record named before the call (also when
\* an approved address or operator calls) to the zero address.
C28_BurnEmitsTransferFromOwner ==
    [][\A id \in TokenIds :
          (/\ crc721_last'.op = "burn"
           /\ Live(id)
           /\ tokens'[id].burned)
          => crc721_events' = <<Transfer721Event(tokens[id].owner, "0x0", id)>>]_vars

\* C29: no operation of either ledger stores a clamped or zeroed counter:
\* when the increment of a registry balance count or of the collection
\* total_supply, or the increment or decrement of a fungible balance,
\* allowance or total_supply, would leave the u64 range, the operation does
\* not succeed and the counter keeps its value.
C29_NoSilentClamp ==
    [][/\ crc721_last'.op = "mint" =>
            \A c \in Callers721, t \in Accounts721, id \in WideTokenIds,
               u \in Uris721 :
               crc721_mint(c, t, id, u) =>
                  /\ balance_of(t) = U64Max =>
                        /\ crc721_last'.result # "Ok"
                        /\ balance_of(t)' = balance_of(t)
                  /\ total_supply = U64Max =>
                        /\ crc721_last'.result # "Ok"
                        /\ total_supply' = total_supply
       /\ crc721_last'.op = "transfer_from" =>
            \A c \in Callers721, f \in Accounts721, t \in Accounts721,
               id \in WideTokenIds :
               (crc721_transfer_from(c, f, t, id) /\ f # t
                  /\ balance_of(t) = U64Max) =>
                  /\ crc721_last'.result # "Ok"
                  /\ balance_of(t)' = balance_of(t)
       /\ (crc20_last'.op = "transfer" /\ ensure_initialized) =>
            \A x \in Accounts20, t \in Accounts20, a \in U64 :
               (/\ execute_transfer(x, t, a)
                /\ \/ ~safe_math_sub_ok(read_balance(crc20_balances, x), a)
                   \/ ~safe_math_add_ok(read_balance(crc20_balances, t), a)) =>
                  /\ crc20_last'.result # "Ok"
                  /\ crc20_balances' = crc20_balances
       /\ (crc20_last'.op = "transfer_from" /\ ensure_initialized) =>
            \A x \in Accounts20, f \in Accounts20, t \in Accounts20, a \in U64 :
               (/\ execute_transfer_from(x, f, t, a)
                /\ \/ ~safe_math_sub_ok(read_allowance(crc20_allowances, f, x), a)
                   \/ ~safe_math_sub_ok(read_balance(crc20_balances, f), a)
                   \/ ~safe_math_add_ok(read_balance(crc20_balances, t), a)) =>
                  /\ crc20_last'.result # "Ok"
                  /\ crc20_balances' = crc20_balances
                  /\ crc20_allowances' = crc20_allowances
       /\ (crc20_last'.op = "mint" /\ ensure_initialized) =>
            \A x \in Senders20, t \in Accounts20, a \in U64 :
               execute_mint(x, t, a) =>
                  /\ ~safe_math_add_ok(execute_total_supply, a) =>
                        /\ crc20_last'.result # "Ok"
                        /\ execute_total_supply' = execute_total_supply
                  /\ ~safe_math_add_ok(read_balance(crc20_balances, t), a) =>
                        /\ crc20_last'.result # "Ok"
                        /\ crc20_balances' = crc20_balances
      ]_vars

\* C30: in every reachable state the collection total_supply equals the
\* length of the global token index.
C30_SupplyIsIndexLength ==
    total_supply = Len(all_tokens)

(* Claims about the reentrancy guard of crc721 *)

GuardedOps == {"mint", "transfer_from", "burn"}

\* C24: the lock taken by mint, transfer_from and burn is released on every
\* exit path, success and early return alike: whenever no guarded
\* invocation is in flight the lock is free, and no guarded call invoked
\* then is rejected with "Reentrancy detected".
C24_LockReleasedOnEveryExit ==
    [][/\ in_flight' = 0 => ~reentrancy_locked'
       /\ (in_flight = 0 /\ calls721' # calls721)
             => crc721_last'.result # "Reentered"]_vars

\* C24 witness: a guarded call has returned through an early-return branch
\* after an earlier guarded call succeeded, and the lock is free.
C24_Witness ==
    /\ crc721_last \in {Call721(op, "Failed") : op \in GuardedOps}
    /\ in_flight = 0
    /\ ~reentrancy_locked
    /\ \E id \in TokenIds : Live(id)
    /\ \E id \in TokenIds : Has(tokens, id) /\ tokens[id].burned

\* C25: at most one of mint, transfer_from and burn is in flight at any
\* time: an invocation of one of them that begins while a guarded
\* invocation has not returned fails at entry, writes no ledger state,
\* emits nothing and leaves the lock with the invocation that holds it.
C25_OneGuardedOperationInFlight ==
    [][/\ in_flight' <= 1
       /\ (/\ in_flight > 0
           /\ calls721' = calls721 + 1
           /\ crc721_last'.op \in GuardedOps)
          => /\ crc721_last'.result = "Reentered"
             /\ crc721_events' = << >>
             /\ UNCHANGED <<store721, reentrancy_locked, in_flight>>]_vars

\* C25 witness: a burn has been rejected at entry while a guarded
\* invocation is in flight and a non-burned token has a record.
C25_Witness ==
    /\ crc721_last = Call721("burn", "Reentered")
    /\ in_flight = 1
    /\ reentrancy_locked
    /\ \E id \in TokenIds : Live(id)

----------------------------------------------------------------------------
(* Claims about the event log of crc20 *)

\* A replayed Transfer event credits `to` and debits `from`, unless `from`
\* is the zero address; other events move nothing.
ReplayEvent20(balances, e) ==
    IF e.name # "Transfer" THEN balances
    ELSE [a \in DOMAIN balances |->
            balances[a]
            + (IF a = e.to THEN e.amount ELSE 0)
            - (IF a = e.from /\ e.from # ZERO_ADDRESS THEN e.amount ELSE 0)]

RECURSIVE Replay20(_, _)
Replay20(balances, events) ==
    IF events = << >> THEN balances
    ELSE Replay20(ReplayEvent20(balances, Head(events)), Tail(events))

\* C31: the event log agrees with the stored balances: replaying the events
\* an invocation emits on the balances stored before it yields the balances
\* stored after it (so that replaying the whole log from empty balances
\* yields the stored balance in every reachable state), and every
\* invocation that succeeds emits exactly one event.
C31_EventLogMatchesBalances ==
    [][/\ Replay20(crc20_balances, crc20_events') = crc20_balances'
       /\ crc20_last'.result = "Ok" => Len(crc20_events') = 1]_vars

====
